---- MODULE Spec2Model ----
(***************************************************************************)
(* chanx: an unbounded channel built from a bounded input channel In, a   *)
(* bounded output channel Out, a growable ring buffer and one pump         *)
(* goroutine (process) that moves values from In through the ring buffer   *)
(* to Out.                                                                 *)
(*                                                                         *)
(* The pump is modelled step by step: every action of the pump contains    *)
(* exactly one operation on shared memory (a channel operation or an       *)
(* atomic operation on bufCount) together with the ring buffer calls that  *)
(* surround it.  Producers, the consumer, the context and the callers of   *)
(* the setters are separate actions that interleave with the pump.         *)
(***************************************************************************)
EXTENDS Integers, Sequences, FiniteSets, TLC

(* ------------------------------ bounds -------------------------------- *)

\* number of values the producers send in a run (values are 1..MaxSend)
MaxSend == 4
\* make(chan T, initInCapacity)
InCap == 1
\* make(chan T, initOutCapacity)
OutCap == 1
\* largest initBufCapacity handed to the constructor (0..MaxInitBuf)
MaxInitBuf == 2
\* largest ceiling handed to the constructor or to SetMaxBufferSize
MaxCeil == 2
\* number of SetMaxBufferSize calls in a run
MaxSets == 1

(* ------------------------- program constants -------------------------- *)

minBufferSize == 2

\* the threshold of grow() between doubling and growing by a quarter
growThreshold == 1024

\* the zero value of T, held by slots of a fresh backing array
zero == 0

VARIABLES
    in,             \* the values queued in the channel In
    inClosed,       \* close(ch.In) has been called
    out,            \* the values queued in the channel Out
    outCloses,      \* how many times close(out) has run
    cancelled,      \* ctx.Done() is closed
    buffer,         \* ch.buffer, the RingBuffer
    bufCount,       \* ch.bufCount
    pc,             \* the pump's position in process
    val,            \* the value the pump holds between two steps
    sent,           \* how many values the producers have sent
    received,       \* the values the consumer has received, in order
    consumerDone,   \* the consumer's range over Out has ended
    setCalls,       \* how many SetMaxBufferSize calls have returned
    exitReason,     \* what made the pump leave its loop
    wlog,           \* the arguments of the calls of Write, in order
    dlog,           \* the values Write has dropped, in order
    cblog,          \* the arguments of the calls of onDiscards, in order
    discardsAtInstall, \* Discards() when the callback was first installed
    everCeiling,    \* a ceiling (maxSize > 0) has been in force at some time
    poll            \* the operands read so far by the call of Len() in progress

vars == <<in, inClosed, out, outCloses, cancelled, buffer, bufCount, pc, val,
          sent, received, consumerDone, setCalls, exitReason, wlog, dlog,
          cblog, discardsAtInstall, everCeiling, poll>>

(* ---------------------------- ring buffer ----------------------------- *)

\* make([]T, n)
MakeBuf(n) == [i \in 0..(n - 1) |-> zero]

\* NewRingBuffer that clamps a max size below the minimum up to the minimum
NewRingBufferClampMax(initialSize, maxBufferSize) ==
    LET init == IF initialSize < minBufferSize THEN minBufferSize ELSE initialSize
        max  == IF Len(maxBufferSize) = 0 THEN 0
                ELSE IF maxBufferSize[1] >= minBufferSize THEN maxBufferSize[1]
                ELSE minBufferSize
    IN  [buf         |-> MakeBuf(init),
         initialSize |-> init,
         size        |-> init,
         maxSize     |-> max,
         discards    |-> 0,
         r           |-> 0,
         w           |-> 0,
         onDiscards  |-> FALSE]

NewRingBuffer(initialSize, maxBufferSize) ==
    LET init == IF initialSize < minBufferSize THEN minBufferSize ELSE initialSize
        max  == IF Len(maxBufferSize) > 0 /\ maxBufferSize[1] >= minBufferSize
                THEN maxBufferSize[1] ELSE 0
    IN  [buf         |-> MakeBuf(init),
         initialSize |-> init,
         size        |-> init,
         maxSize     |-> max,
         discards    |-> 0,
         r           |-> 0,
         w           |-> 0,
         onDiscards  |-> FALSE]

IsEmpty(rb) == rb.r = rb.w

Capacity(rb) == rb.size

MaxSize(rb) == rb.maxSize

Discards(rb) == rb.discards

RingBufferLen(rb) ==
    IF rb.r = rb.w THEN 0
    ELSE IF rb.w > rb.r THEN rb.w - rb.r
    ELSE rb.size - rb.r + rb.w

\* Read of a non-empty buffer: the value and the buffer afterwards.
\* On an empty buffer Read returns ErrIsEmpty and leaves the buffer alone.
Read(rb) ==
    IF rb.r = rb.w
    THEN [v |-> zero, err |-> TRUE, buffer |-> rb]
    ELSE LET r1 == rb.r + 1
         IN  [v      |-> rb.buf[rb.r],
              err    |-> FALSE,
              buffer |-> [rb EXCEPT !.r = IF r1 = rb.size THEN 0 ELSE r1]]

\* Pop panics on an empty buffer; err records the panic.
Pop(rb) == Read(rb)

\* Peek that returns the value written last
PeekNewest(rb) ==
    IF rb.r = rb.w THEN zero ELSE rb.buf[(rb.w + rb.size - 1) % rb.size]

Peek(rb) == IF rb.r = rb.w THEN zero ELSE rb.buf[rb.r]

\* grow that copies the old array as it lies, without unwrapping it at r
growFlat(rb) ==
    LET size == IF rb.size < growThreshold THEN rb.size * 2
                ELSE rb.size + rb.size \div 4
        nbuf == [i \in 0..(size - 1) |->
                    IF i < rb.size THEN rb.buf[i] ELSE zero]
    IN  [rb EXCEPT !.r = 0, !.w = rb.size, !.size = size, !.buf = nbuf]

\* grow that still doubles a buffer of exactly 1024 slots
growDoubleAt1024(rb) ==
    LET size == IF rb.size <= growThreshold THEN rb.size * 2
                ELSE rb.size + rb.size \div 4
        n    == rb.size - rb.r
        nbuf == [i \in 0..(size - 1) |->
                    IF i < n THEN rb.buf[rb.r + i]
                    ELSE IF i < rb.size THEN rb.buf[i - n]
                    ELSE zero]
    IN  [rb EXCEPT !.r = 0, !.w = rb.size, !.size = size, !.buf = nbuf]

\* grow that adds half of the size in place of doubling
growHalf(rb) ==
    LET size == IF rb.size < growThreshold THEN rb.size + rb.size \div 2
                ELSE rb.size + rb.size \div 4
        n    == rb.size - rb.r
        nbuf == [i \in 0..(size - 1) |->
                    IF i < n THEN rb.buf[rb.r + i]
                    ELSE IF i < rb.size THEN rb.buf[i - n]
                    ELSE zero]
    IN  [rb EXCEPT !.r = 0, !.w = rb.size, !.size = size, !.buf = nbuf]

grow(rb) ==
    LET size == IF rb.size < growThreshold THEN rb.size * 2
                ELSE rb.size + rb.size \div 4
        n    == rb.size - rb.r
        nbuf == [i \in 0..(size - 1) |->
                    IF i < n THEN rb.buf[rb.r + i]
                    ELSE IF i < rb.size THEN rb.buf[i - n]
                    ELSE zero]
    IN  [rb EXCEPT !.r = 0, !.w = rb.size, !.size = size, !.buf = nbuf]

\* Write without the test maxSize > 0: no ceiling is taken as ceiling 0
WriteNoGuard(rb, v, m1) ==
    IF RingBufferLen(rb) >= rb.maxSize
    THEN [buffer  |-> [rb EXCEPT !.discards = rb.discards + 1],
          dropped |-> <<v>>,
          cb      |-> IF rb.onDiscards THEN <<v>> ELSE <<>>]
    ELSE LET w1 == rb.w + 1
             st == [rb EXCEPT !.buf[rb.w] = v,
                              !.w = IF w1 = rb.size THEN 0 ELSE w1]
         IN  [buffer  |-> IF st.w = st.r THEN grow(st) ELSE st,
              dropped |-> <<>>,
              cb      |-> <<>>]

\* Write that makes room at the ceiling by dropping the oldest value
WriteDropOldest(rb, v, m1) ==
    LET full == m1 > 0 /\ RingBufferLen(rb) >= rb.maxSize /\ rb.r # rb.w
        r1   == rb.r + 1
        base == IF full
                THEN [rb EXCEPT !.discards = rb.discards + 1,
                                !.r = IF r1 = rb.size THEN 0 ELSE r1]
                ELSE rb
        w1   == base.w + 1
        st   == [base EXCEPT !.buf[base.w] = v,
                             !.w = IF w1 = base.size THEN 0 ELSE w1]
    IN  [buffer  |-> IF st.w = st.r THEN grow(st) ELSE st,
         dropped |-> IF full THEN <<rb.buf[rb.r]>> ELSE <<>>,
         cb      |-> IF full /\ rb.onDiscards THEN <<rb.buf[rb.r]>> ELSE <<>>]

\* Write that returns at the ceiling before it calls the callback
WriteNoCallback(rb, v, m1) ==
    IF m1 > 0 /\ RingBufferLen(rb) >= rb.maxSize
    THEN [buffer  |-> [rb EXCEPT !.discards = rb.discards + 1],
          dropped |-> <<v>>,
          cb      |-> <<>>]
    ELSE LET w1 == rb.w + 1
             st == [rb EXCEPT !.buf[rb.w] = v,
                              !.w = IF w1 = rb.size THEN 0 ELSE w1]
         IN  [buffer  |-> IF st.w = st.r THEN grow(st) ELSE st,
              dropped |-> <<>>,
              cb      |-> <<>>]

\* Write that lets w catch up with r and does not grow the buffer
WriteNoGrow(rb, v, m1) ==
    IF m1 > 0 /\ RingBufferLen(rb) >= rb.maxSize
    THEN [buffer  |-> [rb EXCEPT !.discards = rb.discards + 1],
          dropped |-> <<v>>,
          cb      |-> IF rb.onDiscards THEN <<v>> ELSE <<>>]
    ELSE LET w1 == rb.w + 1
             st == [rb EXCEPT !.buf[rb.w] = v,
                              !.w = IF w1 = rb.size THEN 0 ELSE w1]
         IN  [buffer  |-> st,
              dropped |-> <<>>,
              cb      |-> <<>>]

\* Write that tests the ceiling with > in place of >=
WriteOffByOne(rb, v, m1) ==
    IF m1 > 0 /\ RingBufferLen(rb) > rb.maxSize
    THEN [buffer  |-> [rb EXCEPT !.discards = rb.discards + 1],
          dropped |-> <<v>>,
          cb      |-> IF rb.onDiscards THEN <<v>> ELSE <<>>]
    ELSE LET w1 == rb.w + 1
             st == [rb EXCEPT !.buf[rb.w] = v,
                              !.w = IF w1 = rb.size THEN 0 ELSE w1]
         IN  [buffer  |-> IF st.w = st.r THEN grow(st) ELSE st,
              dropped |-> <<>>,
              cb      |-> <<>>]

\* Write that compares the capacity, not the length, with the ceiling
WriteCapCeiling(rb, v, m1) ==
    IF m1 > 0 /\ rb.size >= rb.maxSize
    THEN [buffer  |-> [rb EXCEPT !.discards = rb.discards + 1],
          dropped |-> <<v>>,
          cb      |-> IF rb.onDiscards THEN <<v>> ELSE <<>>]
    ELSE LET w1 == rb.w + 1
             st == [rb EXCEPT !.buf[rb.w] = v,
                              !.w = IF w1 = rb.size THEN 0 ELSE w1]
         IN  [buffer  |-> IF st.w = st.r THEN grow(st) ELSE st,
              dropped |-> <<>>,
              cb      |-> <<>>]

\* Write(v).  The condition reads r.maxSize twice; m1 is the value of the
\* first read and rb.maxSize the value of the second (they differ only
\* when a SetMaxSize call of another goroutine falls between the reads).
\* cb is the sequence of calls of the callback that the Write makes.
Write(rb, v, m1) ==
    IF m1 > 0 /\ RingBufferLen(rb) >= rb.maxSize
    THEN [buffer  |-> [rb EXCEPT !.discards = rb.discards + 1],
          dropped |-> <<v>>,
          cb      |-> IF rb.onDiscards THEN <<v>> ELSE <<>>]
    ELSE LET w1 == rb.w + 1
             st == [rb EXCEPT !.buf[rb.w] = v,
                              !.w = IF w1 = rb.size THEN 0 ELSE w1]
         IN  [buffer  |-> IF st.w = st.r THEN grow(st) ELSE st,
              dropped |-> <<>>,
              cb      |-> <<>>]

\* Reset that builds the buffer anew from initialSize: the ceiling, the
\* discard counter and the callback are lost
ResetAnew(rb) == NewRingBuffer(rb.initialSize, <<>>)

Reset(rb) ==
    [rb EXCEPT !.r = 0, !.w = 0, !.size = rb.initialSize,
               !.buf = MakeBuf(rb.initialSize)]

\* SetMaxSize that cuts the buffer down to the new ceiling: the newest values
\* beyond n are dropped
SetMaxSizeTruncate(rb, n) ==
    LET nb == IF n = 0 THEN [rb EXCEPT !.maxSize = 0]
              ELSE IF n >= minBufferSize
                   THEN [rb EXCEPT !.maxSize = n,
                                   !.w = IF RingBufferLen(rb) > n
                                         THEN (rb.r + n) % rb.size ELSE rb.w]
              ELSE rb
    IN  [buffer |-> nb, ret |-> nb.maxSize]

\* SetMaxSize that takes every positive n as the new ceiling
SetMaxSizeAnyPositive(rb, n) ==
    LET nb == IF n = 0 THEN [rb EXCEPT !.maxSize = 0]
              ELSE IF n > 0 THEN [rb EXCEPT !.maxSize = n]
              ELSE rb
    IN  [buffer |-> nb, ret |-> nb.maxSize]

\* SetMaxSize(n): the buffer afterwards and the returned value
SetMaxSize(rb, n) ==
    LET nb == IF n = 0 THEN [rb EXCEPT !.maxSize = 0]
              ELSE IF n >= minBufferSize THEN [rb EXCEPT !.maxSize = n]
              ELSE rb
    IN  [buffer |-> nb, ret |-> nb.maxSize]

SetOnDiscards(rb, fn) ==
    IF fn THEN [rb EXCEPT !.onDiscards = fn] ELSE rb

\* the values stored and not yet read, oldest first
Contents(rb) ==
    [i \in 1..RingBufferLen(rb) |-> rb.buf[(rb.r + i - 1) % rb.size]]

(* ------------------------------ facade -------------------------------- *)

BufLen == bufCount

\* Len() that leaves out the values queued in Out
ChanLenNoOut == Len(in) + BufLen

ChanLen == Len(in) + BufLen + Len(out)

outClosed == outCloses > 0

Range(s) == {s[i] : i \in 1..Len(s)}

(* ------------------------------- Init --------------------------------- *)

\* NewUnboundedChanSize(ctx, InCap, OutCap, initBufCapacity, maxBufferSize...)
CeilArgs == {<<>>} \cup {<<n>> : n \in (-1)..MaxCeil}

Init ==
    /\ in = <<>>
    /\ inClosed = FALSE
    /\ out = <<>>
    /\ outCloses = 0
    /\ cancelled = FALSE
    /\ \E initBufCapacity \in (-1)..MaxInitBuf, maxBufferSize \in CeilArgs :
          buffer = NewRingBuffer(initBufCapacity, maxBufferSize)
    /\ bufCount = 0
    /\ pc = "outer"
    /\ val = zero
    /\ sent = 0
    /\ received = <<>>
    /\ consumerDone = FALSE
    /\ setCalls = 0
    /\ exitReason = "none"
    /\ wlog = <<>>
    /\ dlog = <<>>
    /\ cblog = <<>>
    /\ discardsAtInstall = -1
    /\ everCeiling = (buffer.maxSize > 0)
    /\ poll = <<>>

(* --------------------- producers, consumer, context ------------------- *)

\* ch.In <- v : the producers send 1, 2, ... in this order
Send ==
    /\ ~inClosed
    /\ sent < MaxSend
    /\ Len(in) < InCap
    /\ in' = Append(in, sent + 1)
    /\ sent' = sent + 1
    /\ UNCHANGED <<poll, inClosed, out, outCloses, cancelled, buffer, bufCount, pc,
                   val, received, consumerDone, setCalls, exitReason, wlog,
                   dlog, cblog, discardsAtInstall, everCeiling>>

\* close(ch.In)
CloseIn ==
    /\ ~inClosed
    /\ inClosed' = TRUE
    /\ UNCHANGED <<poll, in, out, outCloses, cancelled, buffer, bufCount, pc, val,
                   sent, received, consumerDone, setCalls, exitReason, wlog,
                   dlog, cblog, discardsAtInstall, everCeiling>>

\* v, ok := <-ch.Out with a value
Recv ==
    /\ ~consumerDone
    /\ out # <<>>
    /\ received' = Append(received, Head(out))
    /\ out' = Tail(out)
    /\ UNCHANGED <<poll, in, inClosed, outCloses, cancelled, buffer, bufCount, pc,
                   val, sent, consumerDone, setCalls, exitReason, wlog, dlog,
                   cblog, discardsAtInstall, everCeiling>>

\* v, ok := <-ch.Out on the closed and empty channel: range ch.Out ends
RecvClosed ==
    /\ ~consumerDone
    /\ out = <<>>
    /\ outClosed
    /\ consumerDone' = TRUE
    /\ UNCHANGED <<poll, in, inClosed, out, outCloses, cancelled, buffer, bufCount,
                   pc, val, sent, received, setCalls, exitReason, wlog, dlog,
                   cblog, discardsAtInstall, everCeiling>>

\* cancel()
Cancel ==
    /\ ~cancelled
    /\ cancelled' = TRUE
    /\ UNCHANGED <<poll, in, inClosed, out, outCloses, buffer, bufCount, pc, val,
                   sent, received, consumerDone, setCalls, exitReason, wlog,
                   dlog, cblog, discardsAtInstall, everCeiling>>

(* ------------------------------ setters ------------------------------- *)

SetArgs == (-1)..MaxCeil

\* ch.SetMaxBufferSize(n), between two steps of the pump
SetMaxBufferSize ==
    /\ setCalls < MaxSets
    /\ \E n \in SetArgs :
          /\ buffer' = SetMaxSize(buffer, n).buffer
          /\ everCeiling' = (everCeiling \/ buffer'.maxSize > 0)
    /\ setCalls' = setCalls + 1
    /\ UNCHANGED <<poll, in, inClosed, out, outCloses, cancelled, bufCount, pc, val,
                   sent, received, consumerDone, exitReason, wlog, dlog,
                   cblog, discardsAtInstall>>

\* ch.SetOnDiscards(fn) with a non-nil fn that records its argument
SetOnDiscardsCall ==
    /\ ~buffer.onDiscards
    /\ buffer' = SetOnDiscards(buffer, TRUE)
    /\ discardsAtInstall' = Discards(buffer)
    /\ UNCHANGED <<poll, in, inClosed, out, outCloses, cancelled, bufCount, pc, val,
                   sent, received, consumerDone, setCalls, exitReason, wlog,
                   dlog, cblog, everCeiling>>

(* ------------------------------ observer ------------------------------ *)

\* everything but poll
state == <<in, inClosed, out, outCloses, cancelled, buffer, bufCount, pc, val,
           sent, received, consumerDone, setCalls, exitReason, wlog, dlog,
           cblog, discardsAtInstall, everCeiling>>

\* a call of ch.Len() evaluates len(c.In): the first operand
LenReadIn ==
    /\ poll = <<>>
    /\ poll' = <<Len(in)>>
    /\ UNCHANGED state

\* c.BufLen(), an atomic load of bufCount: the second operand
LenReadBuf ==
    /\ Len(poll) = 1
    /\ poll' = Append(poll, BufLen)
    /\ UNCHANGED state

\* len(c.Out): the third operand, after which Len() returns the sum
\* poll[1] + poll[2] + Len(out)
LenReadOut ==
    /\ Len(poll) = 2
    /\ poll' = <<>>
    /\ UNCHANGED state

\* Len() called by an observer goroutine
LenCall == LenReadIn \/ LenReadBuf \/ LenReadOut

(* ------------------------------- pump --------------------------------- *)

\* A concurrent SetMaxBufferSize call that falls between the two reads of
\* r.maxSize in Write: none (<<>>) or the call's argument (<<n>>).
Races == {<<>>} \cup (IF setCalls < MaxSets THEN {<<n>> : n \in SetArgs} ELSE {})

\* ch.buffer.Write(v) as the pump calls it
PumpWrite(v) ==
    \E race \in Races :
        LET mid == IF race = <<>> THEN buffer
                   ELSE SetMaxSize(buffer, race[1]).buffer
            wr  == Write(mid, v, buffer.maxSize)
        IN  /\ buffer' = wr.buffer
            /\ wlog' = Append(wlog, v)
            /\ dlog' = dlog \o wr.dropped
            /\ cblog' = cblog \o wr.cb
            /\ setCalls' = setCalls + Len(race)
            /\ everCeiling' = (everCeiling \/ wr.buffer.maxSize > 0)

\* outer select, case val, ok := <-in with ok, up to the write or the
\* attempt to send
OuterRecv ==
    /\ pc = "outer"
    /\ in # <<>>
    /\ in' = Tail(in)
    /\ IF bufCount > 0
       THEN /\ PumpWrite(Head(in))
            /\ pc' = "inc"
            /\ val' = zero
       ELSE /\ pc' = "trysend"
            /\ val' = Head(in)
            /\ UNCHANGED <<buffer, wlog, dlog, cblog, setCalls, everCeiling>>
    /\ UNCHANGED <<poll, inClosed, out, outCloses, cancelled, bufCount, sent,
                   received, consumerDone, exitReason, discardsAtInstall>>

\* a pump that writes every value to the ring buffer without trying Out
TrySendBufferOnly ==
    /\ pc = "trysend"
    /\ PumpWrite(val)
    /\ pc' = "inc"
    /\ out' = out
    /\ val' = zero
    /\ UNCHANGED <<poll, in, inClosed, outCloses, cancelled, bufCount, sent,
                   received, consumerDone, exitReason, discardsAtInstall>>

\* select { case out <- val: continue; default: } and the write that follows
TrySend ==
    /\ pc = "trysend"
    /\ IF Len(out) < OutCap
       THEN /\ out' = Append(out, val)
            /\ pc' = "outer"
            /\ UNCHANGED <<buffer, wlog, dlog, cblog, setCalls, everCeiling>>
       ELSE /\ PumpWrite(val)
            /\ pc' = "inc"
            /\ out' = out
    /\ val' = zero
    /\ UNCHANGED <<poll, in, inClosed, outCloses, cancelled, bufCount, sent,
                   received, consumerDone, exitReason, discardsAtInstall>>

\* a pump that enters the inner select after the write without testing
\* IsEmpty()
IncNoTest ==
    /\ pc = "inc"
    /\ bufCount' = bufCount + 1
    /\ pc' = "inner"
    /\ UNCHANGED <<poll, in, inClosed, out, outCloses, cancelled, buffer, val, sent,
                   received, consumerDone, setCalls, exitReason, wlog, dlog,
                   cblog, discardsAtInstall, everCeiling>>

\* a pump without the inner loop: after the write it waits in the outer
\* select again
IncBackToOuter ==
    /\ pc = "inc"
    /\ bufCount' = bufCount + 1
    /\ pc' = "outer"
    /\ UNCHANGED <<poll, in, inClosed, out, outCloses, cancelled, buffer, val, sent,
                   received, consumerDone, setCalls, exitReason, wlog, dlog,
                   cblog, discardsAtInstall, everCeiling>>

\* a pump that does not count the value it has written
IncSkipped ==
    /\ pc = "inc"
    /\ bufCount' = bufCount
    /\ pc' = IF IsEmpty(buffer) THEN "outer" ELSE "inner"
    /\ UNCHANGED <<poll, in, inClosed, out, outCloses, cancelled, buffer, val, sent,
                   received, consumerDone, setCalls, exitReason, wlog, dlog,
                   cblog, discardsAtInstall, everCeiling>>

\* atomic.AddInt64(&ch.bufCount, 1) and the test of the inner loop
Inc ==
    /\ pc = "inc"
    /\ bufCount' = bufCount + 1
    /\ pc' = IF IsEmpty(buffer) THEN "outer" ELSE "inner"
    /\ UNCHANGED <<poll, in, inClosed, out, outCloses, cancelled, buffer, val, sent,
                   received, consumerDone, setCalls, exitReason, wlog, dlog,
                   cblog, discardsAtInstall, everCeiling>>

\* an inner loop that takes from In only while Out has room
InnerRecvWhenOutHasRoom ==
    /\ pc = "inner"
    /\ in # <<>>
    /\ Len(out) < OutCap
    /\ in' = Tail(in)
    /\ PumpWrite(Head(in))
    /\ pc' = "inc"
    /\ UNCHANGED <<poll, inClosed, out, outCloses, cancelled, bufCount, val, sent,
                   received, consumerDone, exitReason, discardsAtInstall>>

\* an inner loop that sends a value from In straight to Out when Out has room
InnerRecvDirect ==
    /\ pc = "inner"
    /\ in # <<>>
    /\ in' = Tail(in)
    /\ IF Len(out) < OutCap
       THEN /\ out' = Append(out, Head(in))
            /\ pc' = "inner"
            /\ UNCHANGED <<buffer, wlog, dlog, cblog, setCalls, everCeiling>>
       ELSE /\ PumpWrite(Head(in))
            /\ pc' = "inc"
            /\ out' = out
    /\ UNCHANGED <<poll, inClosed, outCloses, cancelled, bufCount, val, sent,
                   received, consumerDone, exitReason, discardsAtInstall>>

\* inner select, case val, ok := <-in with ok
InnerRecv ==
    /\ pc = "inner"
    /\ in # <<>>
    /\ in' = Tail(in)
    /\ PumpWrite(Head(in))
    /\ pc' = "inc"
    /\ UNCHANGED <<poll, inClosed, out, outCloses, cancelled, bufCount, val, sent,
                   received, consumerDone, exitReason, discardsAtInstall>>

\* an inner select that sends the head and leaves it in the ring buffer
InnerSendNoPop ==
    /\ pc = "inner"
    /\ Len(out) < OutCap
    /\ out' = Append(out, Peek(buffer))
    /\ buffer' = buffer
    /\ pc' = "dec"
    /\ UNCHANGED <<poll, in, inClosed, outCloses, cancelled, bufCount, val, sent,
                   received, consumerDone, setCalls, exitReason, wlog, dlog,
                   cblog, discardsAtInstall, everCeiling>>

\* inner select, case out <- ch.buffer.Peek(), and ch.buffer.Pop()
InnerSend ==
    /\ pc = "inner"
    /\ Len(out) < OutCap
    /\ out' = Append(out, Peek(buffer))
    /\ buffer' = Pop(buffer).buffer
    /\ pc' = "dec"
    /\ UNCHANGED <<poll, in, inClosed, outCloses, cancelled, bufCount, val, sent,
                   received, consumerDone, setCalls, exitReason, wlog, dlog,
                   cblog, discardsAtInstall, everCeiling>>

\* an inner "if" in place of the inner "for": one value is moved to Out and
\* the pump goes back to the outer select
DecOnce ==
    /\ pc = "dec"
    /\ bufCount' = bufCount - 1
    /\ IF IsEmpty(buffer) /\ buffer.size > buffer.initialSize
       THEN /\ buffer' = Reset(buffer)
            /\ pc' = "store0"
       ELSE /\ buffer' = buffer
            /\ pc' = "outer"
    /\ UNCHANGED <<poll, in, inClosed, out, outCloses, cancelled, val, sent,
                   received, consumerDone, setCalls, exitReason, wlog, dlog,
                   cblog, discardsAtInstall, everCeiling>>

\* a pump that resets the grown buffer after every Pop, empty or not
DecResetNonEmpty ==
    /\ pc = "dec"
    /\ bufCount' = bufCount - 1
    /\ IF buffer.size > buffer.initialSize
       THEN /\ buffer' = Reset(buffer)
            /\ pc' = "store0"
       ELSE /\ buffer' = buffer
            /\ pc' = IF IsEmpty(buffer) THEN "outer" ELSE "inner"
    /\ UNCHANGED <<poll, in, inClosed, out, outCloses, cancelled, val, sent,
                   received, consumerDone, setCalls, exitReason, wlog, dlog,
                   cblog, discardsAtInstall, everCeiling>>

\* a pump that keeps the grown buffer after the burst
DecNoReset ==
    /\ pc = "dec"
    /\ bufCount' = bufCount - 1
    /\ buffer' = buffer
    /\ pc' = IF IsEmpty(buffer) THEN "outer" ELSE "inner"
    /\ UNCHANGED <<poll, in, inClosed, out, outCloses, cancelled, val, sent,
                   received, consumerDone, setCalls, exitReason, wlog, dlog,
                   cblog, discardsAtInstall, everCeiling>>

\* a pump that leaves bufCount as it is after Pop and clears it only with
\* the reset
DecNoCount ==
    /\ pc = "dec"
    /\ bufCount' = bufCount
    /\ IF IsEmpty(buffer) /\ buffer.size > buffer.initialSize
       THEN /\ buffer' = Reset(buffer)
            /\ pc' = "store0"
       ELSE /\ buffer' = buffer
            /\ pc' = IF IsEmpty(buffer) THEN "outer" ELSE "inner"
    /\ UNCHANGED <<poll, in, inClosed, out, outCloses, cancelled, val, sent,
                   received, consumerDone, setCalls, exitReason, wlog, dlog,
                   cblog, discardsAtInstall, everCeiling>>

\* atomic.AddInt64(&ch.bufCount, -1), the reset after a burst and the test
\* of the inner loop
Dec ==
    /\ pc = "dec"
    /\ bufCount' = bufCount - 1
    /\ IF IsEmpty(buffer) /\ buffer.size > buffer.initialSize
       THEN /\ buffer' = Reset(buffer)
            /\ pc' = "store0"
       ELSE /\ buffer' = buffer
            /\ pc' = IF IsEmpty(buffer) THEN "outer" ELSE "inner"
    /\ UNCHANGED <<poll, in, inClosed, out, outCloses, cancelled, val, sent,
                   received, consumerDone, setCalls, exitReason, wlog, dlog,
                   cblog, discardsAtInstall, everCeiling>>

\* atomic.StoreInt64(&ch.bufCount, 0) after the reset
Store0 ==
    /\ pc = "store0"
    /\ bufCount' = 0
    /\ pc' = "outer"
    /\ UNCHANGED <<poll, in, inClosed, out, outCloses, cancelled, buffer, val, sent,
                   received, consumerDone, setCalls, exitReason, wlog, dlog,
                   cblog, discardsAtInstall, everCeiling>>

\* outer select, case val, ok := <-in with !ok: drain() is entered
OuterClosed ==
    /\ pc = "outer"
    /\ in = <<>>
    /\ inClosed
    /\ pc' = "drain"
    /\ exitReason' = "closed"
    /\ UNCHANGED <<poll, in, inClosed, out, outCloses, cancelled, buffer, bufCount,
                   val, sent, received, consumerDone, setCalls, wlog, dlog,
                   cblog, discardsAtInstall, everCeiling>>

\* inner select, case val, ok := <-in with !ok: drain() is entered
InnerClosed ==
    /\ pc = "inner"
    /\ in = <<>>
    /\ inClosed
    /\ pc' = "drain"
    /\ exitReason' = "closed"
    /\ UNCHANGED <<poll, in, inClosed, out, outCloses, cancelled, buffer, bufCount,
                   val, sent, received, consumerDone, setCalls, wlog, dlog,
                   cblog, discardsAtInstall, everCeiling>>

\* a cancel branch that closes Out itself although close(out) is deferred
OuterCancelCloses ==
    /\ pc = "outer"
    /\ cancelled
    /\ outCloses' = outCloses + 1
    /\ pc' = "closing"
    /\ exitReason' = "cancel"
    /\ UNCHANGED <<poll, in, inClosed, out, cancelled, buffer, bufCount, val, sent,
                   received, consumerDone, setCalls, wlog, dlog, cblog,
                   discardsAtInstall, everCeiling>>

\* outer select, case <-ctx.Done()
OuterCancel ==
    /\ pc = "outer"
    /\ cancelled
    /\ pc' = "closing"
    /\ exitReason' = "cancel"
    /\ UNCHANGED <<poll, in, inClosed, out, outCloses, cancelled, buffer, bufCount,
                   val, sent, received, consumerDone, setCalls, wlog, dlog,
                   cblog, discardsAtInstall, everCeiling>>

\* inner select, case <-ctx.Done()
InnerCancel ==
    /\ pc = "inner"
    /\ cancelled
    /\ pc' = "closing"
    /\ exitReason' = "cancel"
    /\ UNCHANGED <<poll, in, inClosed, out, outCloses, cancelled, buffer, bufCount,
                   val, sent, received, consumerDone, setCalls, wlog, dlog,
                   cblog, discardsAtInstall, everCeiling>>

\* drain: the loop test and ch.buffer.Pop(), which the select evaluates
\* before it waits
DrainPop ==
    /\ pc = "drain"
    /\ ~IsEmpty(buffer)
    /\ val' = Pop(buffer).v
    /\ buffer' = Pop(buffer).buffer
    /\ pc' = "drainsel"
    /\ UNCHANGED <<poll, in, inClosed, out, outCloses, cancelled, bufCount, sent,
                   received, consumerDone, setCalls, exitReason, wlog, dlog,
                   cblog, discardsAtInstall, everCeiling>>

\* drain select, case out <- (the popped value)
DrainSend ==
    /\ pc = "drainsel"
    /\ Len(out) < OutCap
    /\ out' = Append(out, val)
    /\ val' = zero
    /\ pc' = "draindec"
    /\ UNCHANGED <<poll, in, inClosed, outCloses, cancelled, buffer, bufCount, sent,
                   received, consumerDone, setCalls, exitReason, wlog, dlog,
                   cblog, discardsAtInstall, everCeiling>>

\* a drain that looks at the context only when it can also send
DrainCancelWhenOutHasRoom ==
    /\ pc = "drainsel"
    /\ cancelled
    /\ Len(out) < OutCap
    /\ pc' = "closing"
    /\ exitReason' = "cancel"
    /\ UNCHANGED <<poll, in, inClosed, out, outCloses, cancelled, buffer, bufCount,
                   val, sent, received, consumerDone, setCalls, wlog, dlog,
                   cblog, discardsAtInstall, everCeiling>>

\* drain select, case <-ctx.Done(): the popped value is abandoned
DrainCancel ==
    /\ pc = "drainsel"
    /\ cancelled
    /\ pc' = "closing"
    /\ exitReason' = "cancel"
    /\ UNCHANGED <<poll, in, inClosed, out, outCloses, cancelled, buffer, bufCount,
                   val, sent, received, consumerDone, setCalls, wlog, dlog,
                   cblog, discardsAtInstall, everCeiling>>

\* drain: atomic.AddInt64(&ch.bufCount, -1)
DrainDec ==
    /\ pc = "draindec"
    /\ bufCount' = bufCount - 1
    /\ pc' = "drain"
    /\ UNCHANGED <<poll, in, inClosed, out, outCloses, cancelled, buffer, val, sent,
                   received, consumerDone, setCalls, exitReason, wlog, dlog,
                   cblog, discardsAtInstall, everCeiling>>

\* a drain that resets the buffer and leaves bufCount as it is
DrainResetNoStore ==
    /\ pc = "drain"
    /\ IsEmpty(buffer)
    /\ buffer' = Reset(buffer)
    /\ bufCount' = bufCount
    /\ pc' = "closing"
    /\ UNCHANGED <<poll, in, inClosed, out, outCloses, cancelled, val, sent,
                   received, consumerDone, setCalls, exitReason, wlog, dlog,
                   cblog, discardsAtInstall, everCeiling>>

\* a drain that resets the buffer without looking whether it is empty
DrainResetEarly ==
    /\ pc = "drain"
    /\ buffer' = Reset(buffer)
    /\ bufCount' = 0
    /\ pc' = "closing"
    /\ UNCHANGED <<poll, in, inClosed, out, outCloses, cancelled, val, sent,
                   received, consumerDone, setCalls, exitReason, wlog, dlog,
                   cblog, discardsAtInstall, everCeiling>>

\* drain: the loop ends, ch.buffer.Reset() and atomic.StoreInt64(.., 0)
DrainReset ==
    /\ pc = "drain"
    /\ IsEmpty(buffer)
    /\ buffer' = Reset(buffer)
    /\ bufCount' = 0
    /\ pc' = "closing"
    /\ UNCHANGED <<poll, in, inClosed, out, outCloses, cancelled, val, sent,
                   received, consumerDone, setCalls, exitReason, wlog, dlog,
                   cblog, discardsAtInstall, everCeiling>>

\* defer close(out)
CloseOut ==
    /\ pc = "closing"
    /\ outCloses' = outCloses + 1
    /\ pc' = "done"
    /\ UNCHANGED <<poll, in, inClosed, out, cancelled, buffer, bufCount, val, sent,
                   received, consumerDone, setCalls, exitReason, wlog, dlog,
                   cblog, discardsAtInstall, everCeiling>>

\* the cases <-ctx.Done() of the three selects
PumpCancel == OuterCancel \/ InnerCancel \/ DrainCancel

\* process
Pump ==
    \/ OuterRecv \/ TrySend \/ Inc \/ InnerRecv \/ InnerSend \/ Dec \/ Store0
    \/ OuterClosed \/ InnerClosed \/ DrainPop \/ DrainSend \/ DrainDec
    \/ DrainReset \/ CloseOut \/ PumpCancel

(* --------------------------- specifications --------------------------- *)

Next ==
    \/ Send \/ CloseIn \/ Recv \/ RecvClosed \/ Cancel
    \/ SetMaxBufferSize \/ SetOnDiscardsCall
    \/ Pump

Spec == Init /\ [][Next]_vars

\* the program with an observer goroutine that calls Len() again and again
NextLen == Next \/ LenCall

SpecLen == Init /\ [][NextLen]_vars

\* The pump goroutine is scheduled fairly, and a select whose case
\* <-ctx.Done() is ready again and again eventually takes it (Go chooses
\* among the ready cases uniformly at random).  Nothing is assumed of the
\* producers, the consumer or the callers of the setters.
FairCancel == Spec /\ WF_vars(Pump) /\ SF_vars(PumpCancel)

\* The pump goroutine is scheduled fairly; nothing else is assumed.
FairPump == Spec /\ WF_vars(Pump)

\* FairPump with a consumer that keeps receiving from Out.
FairAll == FairPump /\ WF_vars(Recv \/ RecvClosed)

TypeOK ==
    /\ pc \in {"outer", "trysend", "inc", "inner", "dec", "store0", "drain",
               "drainsel", "draindec", "closing", "done"}
    /\ Len(in) <= InCap
    /\ Len(out) <= OutCap
    /\ sent \in 0..MaxSend
    /\ outCloses \in 0..1

(* ------------------------------- claims ------------------------------- *)

\* the values 1..n in the order the producers sent them
SentSeq(n) == [i \in 1..n |-> i]

\* s without the values of the set d
Without(s, d) == SelectSeq(s, LAMBDA x : x \notin d)

\* the consumer has seen Out closed after a drain that was not cancelled
DrainedToClosure == consumerDone /\ exitReason = "closed"

\* C1 - Order preservation: when In has been closed and Out has been received
\* until it is closed, with the pump having left by the drain and not by a
\* cancellation, the sequence of values received equals the sequence of
\* values sent with the discarded values removed, in the same order.
C1_OrderPreserved ==
    DrainedToClosure => received = Without(SentSeq(sent), Range(dlog))

\* a full run in which a value went straight to Out, others went through the
\* ring buffer, the buffer grew and a value was discarded
C1_Witness ==
    /\ DrainedToClosure
    /\ sent = MaxSend
    /\ dlog # <<>>
    /\ Len(wlog) < sent
    /\ Len(received) >= 3

\* C2 - No loss when unbounded: while no ceiling has ever been in force,
\* Discards() is 0, and after a drain to closure every value sent has been
\* received exactly once, in order.
C2_NoLossUnbounded ==
    ~everCeiling =>
        /\ Discards(buffer) = 0
        /\ DrainedToClosure => received = SentSeq(sent)

\* an unbounded run drained to closure whose values went through the buffer
C2_Witness ==
    /\ ~everCeiling
    /\ DrainedToClosure
    /\ sent = MaxSend
    /\ Len(wlog) >= 3

\* C3 - Conservation: after a drain to closure the number of values sent is
\* the number received plus Discards().
C3_Conservation ==
    DrainedToClosure => sent = Len(received) + Discards(buffer)

\* a bounded run drained to closure with a discarded value
C3_Witness ==
    /\ DrainedToClosure
    /\ sent = MaxSend
    /\ Discards(buffer) > 0
    /\ MaxSize(buffer) > 0

\* the pump is in its loop: it has not seen In closed nor the context done
Running == pc \in {"outer", "trysend", "inc", "inner", "dec", "store0"}

\* C4 - Producers are not blocked by a slow consumer: the running pump waits
\* only in the two selects, both of which take from In when In holds a
\* value; and under fair scheduling of the pump alone (the consumer may
\* never receive) a full In gets room again unless the context is cancelled.
C4_ProducerNotBlocked ==
    /\ [](Running /\ pc \in {"outer", "inner"} /\ in # <<>>
            => ENABLED (OuterRecv \/ InnerRecv))
    /\ (Len(in) = InCap) ~> (Len(in) < InCap \/ cancelled)

\* every value was sent although the consumer received nothing: Out is full
\* and the ring buffer holds the rest
C4_Witness ==
    /\ sent = MaxSend
    /\ in = <<>>
    /\ received = <<>>
    /\ ~cancelled
    /\ ~inClosed
    /\ Len(out) = OutCap
    /\ pc = "inner"

\* C5 - Eventual delivery without close: with a fair pump and a consumer
\* that keeps receiving, every value sent is eventually received or
\* discarded, unless the context is cancelled; In need not be closed.
C5_EventualDelivery ==
    \A v \in 1..MaxSend :
        (sent >= v) ~> (v \in Range(received) \/ v \in Range(dlog) \/ cancelled)

\* all the values were delivered through the buffer while In is still open
C5_Witness ==
    /\ ~inClosed
    /\ ~cancelled
    /\ sent = MaxSend
    /\ wlog # <<>>
    /\ Len(received) + Len(dlog) = MaxSend

\* the pump has left after a complete drain
DrainComplete == pc = "done" /\ exitReason = "closed"

\* C6 (as claimed) - once In is closed the pump pushes every value still held
\* in In to Out: a value that the pump takes from In after the close is not
\* dropped (stated for the runs without any SetMaxBufferSize call).
C6_AllHeldPushed ==
    [][(inClosed /\ in # <<>> /\ in' = Tail(in) /\ setCalls' = 0)
          => dlog' = dlog]_vars

\* C6 (amended) - once In is closed, with a fair pump and a consumer that
\* keeps receiving, the consumer's range over Out ends unless the context is
\* cancelled; and when the pump leaves after the drain, In and the ring
\* buffer are empty and every value sent has been pushed to Out, except
\* those that Write discarded at the ceiling.
C6_TerminationOnClose ==
    /\ inClosed ~> (consumerDone \/ cancelled)
    /\ [](DrainComplete =>
            /\ IsEmpty(buffer)
            /\ in = <<>>
            /\ (1..sent) \ Range(dlog) \subseteq (Range(received) \cup Range(out)))

\* the drain is under way: In was closed with values in the ring buffer, one
\* has been pushed to Out and another is still buffered
C6_Witness ==
    /\ pc = "draindec"
    /\ ~IsEmpty(buffer)
    /\ ~cancelled

\* C7 - Out is closed at most once, by the pump's deferred close, only after
\* the pump has seen In closed or the context done; and no value is sent on
\* Out once it is closed.
C7_OutClosedOnce ==
    /\ [](/\ outCloses <= 1
          /\ outClosed => /\ pc = "done"
                          /\ exitReason # "none"
                          /\ inClosed \/ cancelled)
    /\ [][outClosed => /\ outClosed'
                       /\ \/ out' = out
                          \/ out # <<>> /\ out' = Tail(out)]_vars

\* Out closed by a cancellation while In is open and Out still holds a value
C7_Witness ==
    /\ outClosed
    /\ exitReason = "cancel"
    /\ ~inClosed
    /\ out # <<>>

\* C8 - Cancellation promptness: with a fair pump whose selects take a ready
\* <-ctx.Done() eventually, and no consumer assumed, once the context is
\* cancelled the pump leaves and closes Out.
C8_CancelPrompt == cancelled ~> (pc = "done" /\ outClosed)

\* the drain was cancelled with Out full, nothing received and a popped
\* value in hand
C8_Witness ==
    /\ pc = "done"
    /\ exitReason = "cancel"
    /\ inClosed
    /\ received = <<>>
    /\ Len(out) = OutCap
    /\ val # zero

\* a step of the pump that calls Write
WriteCalled == Len(wlog') = Len(wlog) + 1

\* C9 - Drop-newest on Write: a call Write(v) that finds a ceiling
\* (r.maxSize > 0 at its first read) and a length >= the ceiling (r.maxSize
\* at its second read) adds exactly 1 to discards, calls the installed
\* callback exactly once with v, and leaves r, w, size and the stored values
\* unchanged.
C9_DropNewest ==
    [][(/\ WriteCalled
        /\ MaxSize(buffer) > 0
        /\ RingBufferLen(buffer) >= MaxSize(buffer'))
       => LET v == wlog'[Len(wlog')]
          IN  /\ Discards(buffer') = Discards(buffer) + 1
              /\ dlog' = Append(dlog, v)
              /\ cblog' = IF buffer.onDiscards THEN Append(cblog, v) ELSE cblog
              /\ buffer'.r = buffer.r
              /\ buffer'.w = buffer.w
              /\ buffer'.size = buffer.size
              /\ buffer'.buf = buffer.buf]_vars

\* a value was dropped at the ceiling with the callback installed, and the
\* ring buffer still holds a full ceiling of values
C9_Witness ==
    /\ MaxSize(buffer) > 0
    /\ RingBufferLen(buffer) >= MaxSize(buffer)
    /\ dlog # <<>>
    /\ cblog = dlog
    /\ setCalls = 0

\* C10 - Discard determinism: when the callback was installed before the
\* first value was discarded, Discards() equals the number of calls of the
\* callback, and the callback has been given exactly the dropped values.
C10_DiscardsEqualCallbacks ==
    discardsAtInstall = 0 =>
        /\ Discards(buffer) = Len(cblog)
        /\ cblog = dlog

\* the callback was installed in time, one value was dropped and others
\* were stored
C10_Witness ==
    /\ discardsAtInstall = 0
    /\ Len(cblog) >= 1
    /\ Len(wlog) > Len(cblog) + 1

\* the ceiling given at construction is in force and no SetMaxBufferSize
\* call has been made
CeilingFixed == setCalls = 0 /\ MaxSize(buffer) >= minBufferSize

\* C11 - Ceiling bound: while the ceiling C >= 2 given at construction has
\* not been touched, the ring buffer holds at most C values; and no step
\* that leaves a ceiling C >= 2 unchanged takes the buffer from at most C
\* values to more than C.
C11_CeilingBound ==
    /\ [](CeilingFixed => RingBufferLen(buffer) <= MaxSize(buffer))
    /\ [][(/\ MaxSize(buffer) >= minBufferSize
           /\ MaxSize(buffer') = MaxSize(buffer)
           /\ RingBufferLen(buffer) <= MaxSize(buffer))
          => RingBufferLen(buffer') <= MaxSize(buffer)]_vars

\* the buffer is at its ceiling and a further value has been dropped
C11_Witness ==
    /\ CeilingFixed
    /\ RingBufferLen(buffer) = MaxSize(buffer)
    /\ Discards(buffer) > 0
    /\ dlog[Len(dlog)] = sent

\* the pump waits in a select of its loop with nothing left in In, and no
\* value has ever been received from Out
QuiescentNoConsumer ==
    /\ pc \in {"outer", "inner"}
    /\ in = <<>>
    /\ received = <<>>

\* C12 - Exact discard count with no consumer: with the construction
\* ceiling C >= 2 untouched, Out of capacity OutCap and nothing received,
\* once N >= C + OutCap values have been sent and the pump has taken them
\* all, Discards() = N - C - OutCap.
C12_ExactDiscards ==
    (CeilingFixed /\ QuiescentNoConsumer /\ sent >= MaxSize(buffer) + OutCap)
        => Discards(buffer) = sent - MaxSize(buffer) - OutCap

\* Out is full, the buffer is at its ceiling and the values beyond that
\* were dropped
C12_Witness ==
    /\ CeilingFixed
    /\ QuiescentNoConsumer
    /\ ~cancelled
    /\ sent > MaxSize(buffer) + OutCap
    /\ Discards(buffer) = sent - MaxSize(buffer) - OutCap
    /\ Len(out) = OutCap

\* the capacity that grow() gives a buffer of capacity size once it has
\* held n values: size is grown until it exceeds n
RECURSIVE GrownCapacity(_, _)
GrownCapacity(size, n) ==
    IF size > n THEN size
    ELSE GrownCapacity(IF size < growThreshold THEN size * 2
                       ELSE size + size \div 4, n)

\* the burst has filled the ring buffer up to the untouched ceiling
AtCeiling == CeilingFixed /\ RingBufferLen(buffer) = MaxSize(buffer)

\* C13 (as claimed) - Capacity at the ceiling: in the burst with no consumer,
\* once the buffered length has reached the ceiling C, BufCapacity() is C.
C13_CapacityIsCeiling ==
    (AtCeiling /\ received = <<>>) => Capacity(buffer) = MaxSize(buffer)

\* C13 (amended) - once the buffered length has reached the ceiling C,
\* BufCapacity() is the initial capacity grown by grow() until it exceeds C,
\* which is more than C.
C13_CapacityAtCeiling ==
    AtCeiling =>
        /\ Capacity(buffer) = GrownCapacity(buffer.initialSize, MaxSize(buffer))
        /\ Capacity(buffer) > MaxSize(buffer)

\* the burst with no consumer has reached the ceiling and dropped a value
C13_Witness ==
    /\ AtCeiling
    /\ received = <<>>
    /\ Discards(buffer) > 0
    /\ buffer.initialSize <= MaxSize(buffer)
    /\ Capacity(buffer) = 2 * buffer.initialSize

\* the values that have reached Out so far
ReachedOut == Len(received) + Len(out)

\* the most discards that N sent values allow: max(0, N - C - K)
DiscardBound ==
    IF sent - MaxSize(buffer) - OutCap > 0
    THEN sent - MaxSize(buffer) - OutCap ELSE 0

\* C14 - Upper bound on discards: with a ceiling C >= 2 fixed at construction
\* and Out capacity K, when N values have been sent Discards() is at most
\* max(0, N - C - K), and a value is discarded only when K values have reached
\* Out and C values are held in the ring buffer.
C14_DiscardUpperBound ==
    /\ [](CeilingFixed => Discards(buffer) <= DiscardBound)
    /\ [][(CeilingFixed /\ setCalls' = 0 /\ Discards(buffer') > Discards(buffer))
          => /\ ReachedOut >= OutCap
             /\ RingBufferLen(buffer) = MaxSize(buffer)
             /\ Contents(buffer') = Contents(buffer)]_vars

\* a consumer has received, and a later value was dropped at the full buffer
C14_Witness ==
    /\ CeilingFixed
    /\ received # <<>>
    /\ Discards(buffer) > 0
    /\ Discards(buffer) = DiscardBound
    /\ RingBufferLen(buffer) = MaxSize(buffer)

\* C15 - Restoring unbounded mode: once SetMaxBufferSize(0) has returned,
\* MaxBufferSize() is 0 and Discards() never increases again: no step that
\* leaves the ceiling removed counts a discard.
C15_NoDiscardOnceRestored ==
    /\ [](SetMaxSize(buffer, 0).ret = 0 /\
          MaxSize(SetMaxSize(buffer, 0).buffer) = 0)
    /\ [][MaxSize(buffer') = 0 => Discards(buffer') = Discards(buffer)]_vars

\* a Write that starts with the ceiling removed never counts a discard
NoDiscardWhileUnbounded ==
    [][MaxSize(buffer) = 0 => Discards(buffer') = Discards(buffer)]_vars

\* the ceiling was removed and the buffer has grown beyond the largest ceiling
GrownBeyondCeiling ==
    /\ everCeiling
    /\ MaxSize(buffer) = 0
    /\ RingBufferLen(buffer) > MaxCeil

\* a step in which SetMaxBufferSize returns and the pump does not write
SetterStep == setCalls' = setCalls + 1 /\ wlog' = wlog

\* C16 - SetMaxBufferSize(n): n = 0 removes the ceiling and returns 0; n >= 2
\* makes n the ceiling and returns n; any other n leaves the ceiling as it is
\* and returns it.  The returned value is what MaxBufferSize() reports
\* afterwards, and nothing else of the buffer changes.
C16_SetMaxBufferSize ==
    /\ [](\A n \in SetArgs :
            LET res == SetMaxSize(buffer, n)
            IN  /\ n = 0 => (MaxSize(res.buffer) = 0 /\ res.ret = 0)
                /\ n >= 2 => (MaxSize(res.buffer) = n /\ res.ret = n)
                /\ (n # 0 /\ n < 2) =>
                      (MaxSize(res.buffer) = MaxSize(buffer) /\
                       res.ret = MaxSize(buffer))
                /\ res.ret = MaxSize(res.buffer)
                /\ res.buffer = [buffer EXCEPT !.maxSize = res.ret])
    /\ [][SetterStep =>
            /\ MaxSize(buffer') \in {0, MaxSize(buffer)} \cup (2..MaxCeil)
            /\ buffer' = [buffer EXCEPT !.maxSize = MaxSize(buffer')]]_vars

\* SetMaxBufferSize(0) has removed the ceiling given at construction before
\* the pump wrote anything
C16_Witness ==
    /\ setCalls = 1
    /\ wlog = <<>>
    /\ everCeiling
    /\ MaxSize(buffer) = 0

\* C17 - Construction never rejects a buffer configuration: an initial
\* capacity below 2 is clamped up to 2, a max size that is absent, zero,
\* negative or 1 leaves the buffer unbounded (MaxBufferSize() = 0), and a max
\* size >= 2 is stored as passed.  The buffer in use keeps these values.
C17_ConstructionClamps ==
    /\ \A initBufCapacity \in (-1)..MaxInitBuf, maxBufferSize \in CeilArgs :
          LET rb == NewRingBuffer(initBufCapacity, maxBufferSize)
          IN  /\ Capacity(rb) = IF initBufCapacity < 2 THEN 2 ELSE initBufCapacity
              /\ rb.initialSize = Capacity(rb)
              /\ DOMAIN rb.buf = 0..(Capacity(rb) - 1)
              /\ IsEmpty(rb)
              /\ Discards(rb) = 0
              /\ MaxSize(rb) = IF maxBufferSize # <<>> /\ maxBufferSize[1] >= 2
                               THEN maxBufferSize[1] ELSE 0
    /\ buffer.initialSize >= 2
    /\ Capacity(buffer) >= buffer.initialSize
    /\ setCalls = 0 => \E initBufCapacity \in (-1)..MaxInitBuf,
                          maxBufferSize \in CeilArgs :
                            LET rb == NewRingBuffer(initBufCapacity, maxBufferSize)
                            IN  /\ buffer.initialSize = rb.initialSize
                                /\ MaxSize(buffer) = MaxSize(rb)

\* a buffer built from an initial capacity and a max size below the minimum
\* is in use: it has capacity for 2 values, holds some and has no ceiling
C17_Witness ==
    /\ setCalls = 0
    /\ buffer.initialSize = NewRingBuffer(-1, <<1>>).initialSize
    /\ MaxSize(buffer) = MaxSize(NewRingBuffer(-1, <<1>>))
    /\ RingBufferLen(buffer) > 0

\* no ceiling has been in force, the context is not cancelled, In is empty
\* and the pump waits in one of its two selects
Quiescent ==
    /\ ~everCeiling
    /\ ~cancelled
    /\ in = <<>>
    /\ pc \in {"outer", "inner"}

\* C18 - Length accounting at quiescence: with no ceiling and no cancellation,
\* when In is empty and the pump is waiting, Len() is the number of values
\* sent minus the number received, and BufLen() is that total minus len(Out),
\* the number of values in the ring buffer.
C18_QuiescentLen ==
    Quiescent =>
        /\ ChanLen = sent - Len(received)
        /\ Len(in) = 0
        /\ BufLen = ChanLen - Len(out)
        /\ BufLen = RingBufferLen(buffer)

\* Out is full, two more values wait in the ring buffer, one value has been
\* received
C18_Witness ==
    /\ Quiescent
    /\ Len(out) = OutCap
    /\ Len(received) = 1
    /\ BufLen = 2
    /\ ChanLen = sent - 1

\* no ceiling has been in force and the context is not cancelled
NoCeilingNoCancel == ~everCeiling /\ ~cancelled

\* how far len(In) + bufCount + len(Out) is from the number of values sent
\* and not yet received
Miscount == ChanLen - (sent - Len(received))

\* C19 (as claimed) - Tri-location accounting at every poll: with no ceiling,
\* at every observation point, between any two steps of the pump too,
\* len(In) + bufCount + len(Out) is the number of values sent minus the number
\* received.
C19_ExactAtEveryPoll == NoCeilingNoCancel => Miscount = 0

\* C19 (amended) - with no ceiling, len(In) + bufCount + len(Out) is the
\* number of values sent minus the number received whenever the pump waits
\* in a select; between two steps of the pump it is one less while the pump
\* holds a value taken from In that is not yet sent or counted, and one more
\* while a value sent to Out from the ring buffer is still counted in
\* bufCount.
C19_AccountingWithinOne ==
    NoCeilingNoCancel =>
        Miscount = CASE pc \in {"trysend", "inc"} -> -1
                     [] pc \in {"dec", "draindec"} -> 1
                     [] OTHER                      -> 0

\* a value has gone from the ring buffer to Out and bufCount still counts it,
\* while the consumer has already received one value
C19_Witness ==
    /\ NoCeilingNoCancel
    /\ pc = "dec"
    /\ received # <<>>
    /\ Miscount = 1
    /\ bufCount = RingBufferLen(buffer) + 1

\* C20 - Length sanity: bufCount is never negative, so BufLen() >= 0; and
\* however the three reads inside a call of Len() interleave with the pump,
\* the producers and the consumer, the sum it returns is >= 0 and >= the
\* BufLen() it has read.  The same holds of the three values in one state.
C20_LengthSanity ==
    /\ [](BufLen >= 0 /\ ChanLen >= 0 /\ ChanLen >= BufLen)
    /\ [](Len(poll) = 2 => poll[2] >= 0)
    /\ [][(Len(poll) = 2 /\ poll' = <<>>) =>
            LET l == poll[1] + poll[2] + Len(out)
            IN  l >= 0 /\ l >= poll[2]]_vars

\* a call of Len() has read len(In) and bufCount, and since then the pump has
\* taken the value from In and moved another from the ring buffer to Out: the
\* sum to be returned counts two values that are there no more
C20_Witness ==
    /\ Len(poll) = 2
    /\ poll[1] > Len(in)
    /\ poll[2] > BufLen
    /\ BufLen > 0
    /\ poll[1] + poll[2] + Len(out) > ChanLen + 1

\* the pump waits in the outer or the inner select
AtSelect == pc \in {"outer", "inner"}

\* C21 - BufLen tracks the ring buffer: in every configuration, with a
\* ceiling and discards too, whenever the pump is at a wait point BufLen() is
\* the number of values in the ring buffer.
C21_BufLenTracksBuffer ==
    (setCalls = 0 /\ AtSelect) => BufLen = RingBufferLen(buffer)

\* the pump, waiting in the outer select, takes a value from In
OuterTakes == pc = "outer" /\ in # <<>> /\ in' = Tail(in) /\ pc' # "outer"

\* the pump goes on from the non-blocking send
AfterTake == pc = "trysend" /\ pc' # "trysend"

\* C22 - Direct mode: when the ring buffer is empty and the pump receives a
\* value from In, it tries a non-blocking send of the value to Out; with room
\* in Out the value goes to Out and the ring buffer is not written, and only
\* with Out full is the value written to the ring buffer.
C22_DirectMode ==
    /\ [][(OuterTakes /\ IsEmpty(buffer)) =>
            (pc' = "trysend" /\ val' = Head(in) /\ wlog' = wlog)]_vars
    /\ [][AfterTake =>
            IF Len(out) < OutCap
            THEN out' = Append(out, val) /\ wlog' = wlog /\ buffer' = buffer
            ELSE out' = out /\ wlog' = Append(wlog, val)]_vars

\* the pump takes a value from In
TakesFromIn == in # <<>> /\ in' = Tail(in)

\* a value is sent to Out
SendsToOut == Len(out') = Len(out) + 1

\* C23 - Buffering rule: while the ring buffer is non-empty the pump sends no
\* value taken from In directly to Out; every value received in that state is
\* passed to Write, and the only value sent to Out is the head of the ring
\* buffer (in drain, the head that Pop has just taken).
C23_BufferingRule ==
    /\ [](pc = "trysend" => IsEmpty(buffer))
    /\ [][(TakesFromIn /\ ~IsEmpty(buffer)) =>
            (wlog' = Append(wlog, Head(in)) /\ out' = out)]_vars
    /\ [][(SendsToOut /\ ~IsEmpty(buffer)) =>
            \/ /\ pc = "inner"
               /\ out' = Append(out, Peek(buffer))
               /\ Contents(buffer) = <<Peek(buffer)>> \o Contents(buffer')
            \/ /\ pc = "drainsel"
               /\ out' = Append(out, val)]_vars
    /\ [][(pc = "drain" /\ pc' = "drainsel") =>
            (val' = Peek(buffer) /\
             Contents(buffer) = <<val'>> \o Contents(buffer'))]_vars

\* Out has room, and the value just taken from In has been written to the
\* ring buffer behind the value already there
C23_Witness ==
    /\ pc = "inc"
    /\ Len(out) < OutCap
    /\ RingBufferLen(buffer) >= 2
    /\ Contents(buffer)[RingBufferLen(buffer)] = wlog[Len(wlog)]
    /\ dlog = <<>>

\* the ring buffer has grown beyond its initial capacity
Grown == Capacity(buffer) > buffer.initialSize

\* C24 - Shrink after burst: when the pump has popped the last buffered value
\* in the buffering loop and the capacity exceeds initialSize, its next steps
\* reset the buffer to initialSize and set bufCount to 0; whenever the pump
\* waits in the outer select the ring buffer is empty and Capacity() is
\* initialSize.
C24_ShrinkAfterBurst ==
    /\ [][(pc = "dec" /\ pc' # "dec" /\ IsEmpty(buffer) /\ Grown) =>
            /\ pc' = "store0"
            /\ buffer' = Reset(buffer)
            /\ IsEmpty(buffer')
            /\ Capacity(buffer') = buffer.initialSize
            /\ DOMAIN buffer'.buf = 0..(buffer.initialSize - 1)]_vars
    /\ [][(pc = "store0" /\ pc' # "store0") =>
            (pc' = "outer" /\ bufCount' = 0 /\ buffer' = buffer)]_vars
    /\ [](pc \in {"outer", "store0"} =>
            (IsEmpty(buffer) /\ Capacity(buffer) = buffer.initialSize))

\* the buffer that held two values at once has just been reset
C24_Witness ==
    /\ pc = "store0"
    /\ Len(received) >= 2
    /\ IsEmpty(buffer)
    /\ Capacity(buffer) = buffer.initialSize
    /\ bufCount = 0

\* the pump calls Reset() in the buffering loop
LoopResets == pc = "dec" /\ pc' = "store0"

\* the pump calls Reset() at the end of drain
DrainResets == pc = "drain" /\ pc' = "closing"

\* capacity decreases only by a reset to initialSize
ShrinkOnlyByReset ==
    Capacity(buffer') < Capacity(buffer) =>
        /\ LoopResets \/ DrainResets
        /\ buffer' = Reset(buffer)
        /\ Capacity(buffer') = buffer.initialSize

\* C25 (as claimed) - Growth/shrink invariant: the capacity never decreases
\* except by a reset to initialSize, and the pump performs a reset only when
\* the buffer is empty after its capacity had exceeded initialSize.
C25_ResetOnlyAfterGrowth ==
    /\ [][ShrinkOnlyByReset]_vars
    /\ [][(LoopResets \/ DrainResets) => (IsEmpty(buffer) /\ Grown)]_vars

\* C25 (amended) - the capacity never decreases except by a reset to
\* initialSize, and the pump performs a reset only when the buffer is empty:
\* in the buffering loop only after its capacity had exceeded initialSize, at
\* the end of drain whether or not it had.
C25_GrowthShrink ==
    /\ [][ShrinkOnlyByReset]_vars
    /\ [][LoopResets => (IsEmpty(buffer) /\ Grown)]_vars
    /\ [][DrainResets => (IsEmpty(buffer) /\ buffer' = Reset(buffer))]_vars

\* drain has reset a buffer that never grew since it was last reset
C25_Witness ==
    /\ pc = "closing"
    /\ exitReason = "closed"
    /\ wlog = <<>>
    /\ received # <<>>
    /\ Capacity(buffer) = buffer.initialSize

\* the pump goroutine is blocked: no step of process can be taken
PumpBlocked == pc \notin {"closing", "done"} /\ ~ENABLED Pump

\* a value taken from the ring buffer, or still in it, waits for Out
BufferedValueWaits == ~IsEmpty(buffer) \/ pc = "drainsel"

\* C26 - Work conservation: whenever the pump is blocked while the ring buffer
\* is non-empty and the context is not cancelled, Out is full; with room in
\* Out and a buffered value waiting the pump can take a step.
C26_WorkConservation ==
    (~cancelled /\ BufferedValueWaits /\ PumpBlocked) => Len(out) = OutCap

\* the pump is blocked in the inner select: In is empty and open, two values
\* wait in the ring buffer, Out is full
C26_Witness ==
    /\ ~cancelled
    /\ PumpBlocked
    /\ pc = "inner"
    /\ RingBufferLen(buffer) = 2
    /\ Len(out) = OutCap

\* the values that Write has stored and that the pump has not taken out of
\* the ring buffer since: written and not dropped, not in the pump's hand, not
\* in Out and not received
Stored ==
    (Range(wlog) \ Range(dlog)) \ (Range(received) \cup Range(out) \cup {val})

\* a Write that stores its value
WriteStores == Len(wlog') = Len(wlog) + 1 /\ dlog' = dlog

\* C27 - Ring buffer is never full: after every completed Write, Read, Pop,
\* grow or Reset, 0 <= r < size, 0 <= w < size, size >= 2, r = w exactly when
\* the buffer holds no value, and Len() <= size - 1; a Write that would make
\* w = r grows the buffer.
C27_NeverFull ==
    /\ [](/\ 0 <= buffer.r /\ buffer.r < buffer.size
          /\ 0 <= buffer.w /\ buffer.w < buffer.size
          /\ buffer.size >= 2
          /\ DOMAIN buffer.buf = 0..(buffer.size - 1)
          /\ (buffer.r = buffer.w) <=> (Stored = {})
          /\ IsEmpty(buffer) <=> (RingBufferLen(buffer) = 0)
          /\ RingBufferLen(buffer) <= buffer.size - 1)
    /\ [][WriteStores =>
            /\ RingBufferLen(buffer') = RingBufferLen(buffer) + 1
            /\ IF RingBufferLen(buffer) = buffer.size - 1
               THEN /\ buffer'.size > buffer.size
                    /\ buffer'.r = 0
                    /\ buffer'.w = buffer.size
               ELSE buffer'.size = buffer.size /\ buffer'.r = buffer.r]_vars

\* a Write has filled the last free slot but one and the buffer has grown,
\* after the consumer has received values
C27_Witness ==
    /\ pc = "inc"
    /\ dlog = <<>>
    /\ buffer.size = 2 * buffer.initialSize
    /\ RingBufferLen(buffer) = buffer.initialSize
    /\ Len(received) >= 2
    /\ buffer.r = 0
    /\ buffer.w = buffer.initialSize

\* the FIFO sequence the ring buffer stands for: the values stored and not
\* yet taken out, in the order of their Write calls
Fifo == SelectSeq(wlog, LAMBDA x : x \in Stored)

\* a value no producer sends
Fresh == MaxSend + 1

\* C28 - Ring buffer refines a FIFO sequence: after any sequence of Write,
\* Read/Pop, Peek and Reset calls, with growth at any offset and with wrapped
\* contents, the buffer holds the FIFO sequence; Read/Pop returns its oldest
\* value and removes it, Peek returns the same value and removes nothing,
\* Len() is its length, a Write (with or without grow()) appends to it and
\* keeps the order, Reset empties it.
C28_FifoRefinement ==
    /\ [](/\ Contents(buffer) = Fifo
          /\ RingBufferLen(buffer) = Len(Fifo)
          /\ Contents(Write(buffer, Fresh, 0).buffer) = Append(Fifo, Fresh)
          /\ Contents(Reset(buffer)) = <<>>
          /\ IF Fifo = <<>>
             THEN Read(buffer).err /\ Read(buffer).buffer = buffer
             ELSE /\ Peek(buffer) = Head(Fifo)
                  /\ ~Read(buffer).err
                  /\ Read(buffer).v = Head(Fifo)
                  /\ Pop(buffer).v = Head(Fifo)
                  /\ Contents(Pop(buffer).buffer) = Tail(Fifo))
    /\ [][WriteStores => Fifo' = Append(Fifo, wlog'[Len(wlog')])]_vars
    /\ [][(SendsToOut /\ pc = "inner") =>
            (out' = Append(out, Head(Fifo)) /\ Fifo' = Tail(Fifo))]_vars
    /\ [][(pc = "drain" /\ pc' = "drainsel") =>
            (val' = Head(Fifo) /\ Fifo' = Tail(Fifo))]_vars

\* the contents wrap around the end of the array and the next Write grows the
\* buffer
C28_Witness ==
    /\ buffer.w < buffer.r
    /\ RingBufferLen(buffer) = buffer.size - 1
    /\ Contents(buffer) = Fifo
    /\ Capacity(Write(buffer, Fresh, 0).buffer) > Capacity(buffer)

\* the sizes at which grow() is applied below: small ones and the sizes
\* around the threshold 1024
GrowSizes == {2, 3, 5, 1023, 1024, 1025, 1027}

\* a buffer of the given size in the state in which Write calls grow():
\* w = r after the write, slot i holding the value i + 1
FullBuffer(size, r) ==
    [NewRingBuffer(size, <<>>) EXCEPT !.buf = [i \in 0..(size - 1) |-> i + 1],
                                      !.r = r, !.w = r]

\* the capacity grow() gives a buffer of the given size
GrownSize(size) == IF size < 1024 THEN size * 2 ELSE size + size \div 4

\* grow() applied to full buffers of the sizes GrowSizes at the offsets 0, 1
\* and size - 1
GrowRule ==
    \A size \in GrowSizes : \A r \in {0, 1, size - 1} :
        LET rb == FullBuffer(size, r)
            g  == grow(rb)
        IN  /\ g.size = GrownSize(size)
            /\ Capacity(g) = GrownSize(size)
            /\ DOMAIN g.buf = 0..(GrownSize(size) - 1)
            /\ g.r = 0
            /\ g.w = size
            /\ RingBufferLen(g) = size
            /\ \A i \in 0..(size - 1) : g.buf[i] = rb.buf[(r + i) % size]

\* C29 - grow(): the new capacity is size*2 when size < 1024 and
\* size + size/4 (integer division) otherwise; after grow r = 0, w is the old
\* size, size is the new capacity and Len() is the old size.
C29_Grow ==
    /\ [](GrowRule)
    /\ [][Capacity(buffer') > Capacity(buffer) =>
            /\ Capacity(buffer') = GrownSize(Capacity(buffer))
            /\ buffer'.r = 0
            /\ buffer'.w = Capacity(buffer)
            /\ RingBufferLen(buffer') = Capacity(buffer)
            /\ Contents(buffer') = Append(Contents(buffer), wlog'[Len(wlog')])]_vars

\* with no consumer the second Write has filled the buffer of initial
\* capacity and grow() has doubled it
C29_Witness ==
    /\ pc = "inc"
    /\ received = <<>>
    /\ Len(wlog) = buffer.initialSize
    /\ dlog = <<>>
    /\ buffer.size = GrownSize(buffer.initialSize)
    /\ buffer.r = 0
    /\ buffer.w = buffer.initialSize

\* C30 - The pump never reads an empty ring buffer: the inner select, which
\* evaluates Peek() when it is entered, is entered only with a non-empty
\* buffer, and every Pop() of the buffering loop and of drain finds a value,
\* whatever the setter calls and the discards.
C30_NoEmptyRead ==
    /\ [](pc = "inner" => ~IsEmpty(buffer))
    /\ [][(pc = "inner" /\ pc' = "dec") =>
            (~Pop(buffer).err /\ out' = Append(out, buffer.buf[buffer.r]))]_vars
    /\ [][(pc = "drain" /\ pc' = "drainsel") =>
            (~Pop(buffer).err /\ val' = buffer.buf[buffer.r])]_vars

\* after a setter call and a discard the pump has popped the last value of
\* the ring buffer
C30_Witness ==
    /\ pc = "dec"
    /\ setCalls = 1
    /\ Discards(buffer) > 0
    /\ IsEmpty(buffer)
    /\ out # <<>>

\* s holds values sent so far, each once, in the order they were sent (the
\* producers send 1, 2, ... in this order)
SubsequenceOfSent(s) ==
    /\ \A i \in 1..Len(s) : s[i] \in 1..sent
    /\ \A i, j \in 1..Len(s) : i < j => s[i] < s[j]

\* C31 - Cancellation is lossy but order-safe: once the context is cancelled,
\* at whatever point, the values received from Out (and those still queued in
\* Out) are a subsequence of the values sent, in their order and each at most
\* once; values may be missing.
C31_CancelOrderSafe ==
    cancelled => SubsequenceOfSent(received \o out)

\* a cancelled drain: the pump has left with a popped value in its hand and
\* another in the ring buffer, the consumer has seen Out closed and has
\* received fewer values than were sent and kept
C31_Witness ==
    /\ cancelled
    /\ exitReason = "cancel"
    /\ inClosed
    /\ consumerDone
    /\ val # zero
    /\ ~IsEmpty(buffer)
    /\ received # <<>>
    /\ Len(received) < sent - Len(dlog)

\* the pump has finished drain after it saw In closed, and closes or has
\* closed Out
EndOfStream == pc \in {"closing", "done"} /\ exitReason = "closed"

\* C32 - State at normal end-of-stream: when the pump closes Out after it saw
\* In closed, without cancellation, the ring buffer is empty, Capacity() is
\* initialSize and BufLen() is 0, so from then on Len() is the number of
\* values still unread in Out.
C32_EndOfStreamState ==
    /\ [](EndOfStream =>
            /\ IsEmpty(buffer)
            /\ RingBufferLen(buffer) = 0
            /\ Capacity(buffer) = buffer.initialSize
            /\ BufLen = 0
            /\ in = <<>>
            /\ ChanLen = Len(out))
    /\ [][(pc = "closing" /\ pc' = "done" /\ exitReason = "closed") =>
            (outCloses' = 1 /\ BufLen' = 0 /\ buffer' = buffer)]_vars

\* Out is closed after a drain of a buffer that had grown and had discarded,
\* and one value is still unread in Out
C32_Witness ==
    /\ pc = "done"
    /\ exitReason = "closed"
    /\ outClosed
    /\ dlog # <<>>
    /\ Len(out) = 1
    /\ ChanLen = 1
    /\ Len(received) >= 2

\* a step of the pump goroutine: process moves on
PumpStep == pc' # pc

\* C33 - Single ownership of the ring buffer: also while other goroutines
\* call BufCapacity(), MaxBufferSize(), Discards(), SetMaxBufferSize() or
\* SetOnDiscards(), only the pump changes the state of the ring buffer, and
\* no field changes under the pump while it runs a Write.
C33_SingleOwner ==
    /\ [][buffer' # buffer => PumpStep]_vars
    /\ [][WriteCalled => MaxSize(buffer') = MaxSize(buffer)]_vars

\* the fields that Reset() is to leave alone
Kept(rb) == <<rb.discards, rb.maxSize, rb.initialSize, rb.onDiscards>>

\* C34 - Discard counter is monotone and survives resets: Discards() never
\* decreases, and Reset(), after a burst or at the end of drain, changes only
\* r, w, size and the backing array: discards, maxSize, initialSize and the
\* installed callback stay as they are.
C34_DiscardsSurviveReset ==
    /\ [][Discards(buffer') >= Discards(buffer)]_vars
    /\ [](Kept(Reset(buffer)) = Kept(buffer))
    /\ [][(LoopResets \/ DrainResets) =>
            /\ Kept(buffer') = Kept(buffer)
            /\ buffer'.r = 0 /\ buffer'.w = 0
            /\ buffer'.size = buffer.initialSize
            /\ buffer'.buf = MakeBuf(buffer.initialSize)]_vars

\* the buffer has just been reset after a burst in which a value was
\* discarded under a ceiling, with the callback installed
C34_Witness ==
    /\ pc = "store0"
    /\ Discards(buffer) > 0
    /\ MaxSize(buffer) >= minBufferSize
    /\ buffer.onDiscards
    /\ cblog # <<>>
    /\ IsEmpty(buffer)

\* the ceiling is below the number of buffered values: it has been lowered
Lowered ==
    MaxSize(buffer) >= minBufferSize /\ RingBufferLen(buffer) > MaxSize(buffer)

\* the value in the hand of drain, if any
InHand == IF pc = "drainsel" THEN <<val>> ELSE <<>>

\* s is a prefix of t
IsPrefix(s, t) == Len(s) <= Len(t) /\ \A i \in 1..Len(s) : s[i] = t[i]

\* C35 - Lowering the ceiling drops nothing already buffered: a call of
\* SetMaxBufferSize, also one with n below the number of buffered values and
\* one that falls inside a Write, removes no buffered value; the buffered
\* values leave the ring buffer only from its head towards Out and stay in
\* order behind the values already in Out; and a value is discarded only
\* when it arrives while the buffered length is >= the ceiling n.
C35_LoweringKeepsBuffered ==
    /\ [](\A n \in SetArgs :
            Contents(SetMaxSize(buffer, n).buffer) = Contents(buffer))
    /\ [][setCalls' # setCalls =>
            IsPrefix(Contents(buffer), Contents(buffer'))]_vars
    /\ [][(Lowered /\ Contents(buffer') # Contents(buffer)) =>
            /\ Contents(buffer') = Tail(Contents(buffer))
            /\ \/ out' = Append(out, Head(Contents(buffer)))
               \/ pc' = "drainsel" /\ val' = Head(Contents(buffer))]_vars
    /\ [](exitReason # "cancel" =>
            SubsequenceOfSent(received \o out \o InHand \o Contents(buffer)))
    /\ [][(Discards(buffer') > Discards(buffer) /\
           MaxSize(buffer') >= minBufferSize) =>
            /\ RingBufferLen(buffer) >= MaxSize(buffer')
            /\ Contents(buffer') = Contents(buffer)]_vars

\* SetMaxBufferSize(2) has been called on a buffer that holds three values,
\* and all three are still there
C35_Witness ==
    /\ setCalls = 1
    /\ Lowered
    /\ RingBufferLen(buffer) = 3
    /\ Contents(buffer) = Fifo
    /\ dlog = <<>>

====
